---------------------------- MODULE Spec2Model ----------------------------
(***************************************************************************)
(* Two-level LDA Gibbs sampler of tedunderwood/roles:                      *)
(*   src/infer_two_levels.py  (Book, Character, load_characters,           *)
(*                             recreate_matrix, onepass, shuffledivide,     *)
(*                             the __main__ coordinator loop)               *)
(*   src/gibbs.py             (onepass, the sweep a pool worker runs)       *)
(*                                                                         *)
(* Conventions.  Topic ids and word ids are 0-based as in the code and are *)
(* the domains of the count vectors and of the rows/columns of the         *)
(* topic-word matrix.  Python lists (wordtypes, topicassigns, characters,  *)
(* booklist) are TLA+ sequences, so a Python position idx is idx+1 here.   *)
(* Books and characters are records (values): a pool worker works on the   *)
(* pickled copy of its shard and hands the changed copy back.              *)
(* alpha and beta are kept as exact rationals in units of 1/1000 and 1/10. *)
(***************************************************************************)
EXTENDS Integers, Sequences, FiniteSets, TLC

\* ------------------------------------------------------------------ bounds
NumTopics == 2
NumWordTypes == 2
MaxProcesses == 2
NumIterations == 2
MaxTokens == 3

\* ------------------------------------------------------- program constants
AuditEvery == 50
AuditPhase == 1
SeedModulus == 399
RescaleEvery == 20
RescaleAfter == 99
AlphaMeanDen == 1000
BetaDen == 10
TooLong == 32700
TooShort == 9
ConfiguredProcesses == 16
ConfiguredIterations == 160

Topics == 0 .. (NumTopics - 1)
WordIds == 0 .. (NumWordTypes - 1)

VARIABLES
    numthemes,      \* numthemes (T); numroles = numtopics - numthemes
    numprocesses,   \* numprocesses (P)
    numiterations,  \* numiterations
    allbooks,       \* the dict allbooks, in insertion order
    twmatrix,       \* the coordinator's topic-word matrix
    booklist,       \* booklist of the parallel branch
    booksequences,  \* the shards, indexed 0 .. numprocesses-1
    iteration,      \* loop variable of the coordinator
    alpha,          \* alpha / alphamean per topic, a rational <<num, den>>
    pc,             \* "loop" | "wait" | "pass" | "done" | "aborted"
    worker,         \* locals of each running sweep, indexed 0 .. numprocesses-1
    rng,            \* random streams replayed by a second run (determinism)
    load,           \* load_characters at work on a file (SpecLoad)
    ref             \* the single-process sweep run alongside (SpecPair)

vars == <<numthemes, numprocesses, numiterations, allbooks, twmatrix, booklist,
          booksequences, iteration, alpha, pc, worker, rng, load, ref>>

\* ----------------------------------------------------------------- helpers
Zeros(S) == [x \in S |-> 0]

ZeroMatrix == [w \in WordIds |-> Zeros(Topics)]

RECURSIVE SumFn(_, _)
SumFn(f, S) == IF S = {} THEN 0
               ELSE LET x == CHOOSE y \in S : TRUE IN f[x] + SumFn(f, S \ {x})

RECURSIVE SumSeq(_)
SumSeq(s) == IF s = <<>> THEN 0 ELSE Head(s) + SumSeq(Tail(s))

\* np.sum(twmatrix, axis = 0)
ColumnSums(tw) == [k \in Topics |-> SumFn([w \in WordIds |-> tw[w][k]], WordIds)]

\* np.sum(twmatrix)
MatrixSum(tw) == SumFn(ColumnSums(tw), Topics)

MatrixAdd(a, b) == [w \in WordIds |-> [k \in Topics |-> a[w][k] + b[w][k]]]

MatrixSub(a, b) == [w \in WordIds |-> [k \in Topics |-> a[w][k] - b[w][k]]]

\* Mutant of Inc: the increment is left out.
IncForgotten(f, i) == f

Inc(f, i) == [f EXCEPT ![i] = @ + 1]

Dec(f, i) == [f EXCEPT ![i] = @ - 1]

\* ------------------------------------------------- Book and Character data
\* Book.__init__
NewBook(bookname, nt) ==
    [name |-> bookname,
     themecounts |-> Zeros(0 .. (nt - 1)),
     characters |-> <<>>,
     totalwords |-> 0]

\* Mutant of IncrementDecrement: the change is applied with the wrong sign.
IncrementDecrementSignFlipped(book, topicnum, change) ==
    [book EXCEPT !.themecounts[topicnum] = @ - change]

\* Book.increment_decrement
IncrementDecrement(book, topicnum, change) ==
    [book EXCEPT !.themecounts[topicnum] = @ + change]

\* Character.__init__, the loop over wordseq: tokens[idx] = <<wordid, topic>>,
\* topic being the outcome of random.sample(topicroulette, 1)[0].
RECURSIVE InitialAssign(_, _, _, _, _)
InitialAssign(tokens, idx, char, book, nt) ==
    IF idx > Len(tokens) THEN [char |-> char, book |-> book]
    ELSE LET wordid == tokens[idx][1]
             topic == tokens[idx][2]
             c1 == [char EXCEPT !.wordtypes[idx] = wordid,
                                !.topicassigns[idx] = topic]
         IN  IF topic < nt
             THEN InitialAssign(tokens, idx + 1, c1,
                                [book EXCEPT !.themecounts[topic] = @ + 1], nt)
             ELSE InitialAssign(tokens, idx + 1,
                                [c1 EXCEPT !.rolecounts[topic - nt] = @ + 1],
                                book, nt)

\* Character.__init__: returns the new character and its (changed) book.
NewCharacter(tokens, book, nt) ==
    InitialAssign(tokens, 1,
                  [numwords |-> Len(tokens),
                   wordtypes |-> [i \in 1 .. Len(tokens) |-> 0],
                   topicassigns |-> [i \in 1 .. Len(tokens) |-> 0],
                   rolecounts |-> Zeros(0 .. (NumTopics - nt - 1))],
                  book, nt)

\* Book.accept_character
AcceptCharacter(book, character) ==
    [book EXCEPT !.characters = Append(@, character),
                 !.totalwords = @ + character.numwords]

\* load_characters, "Build the topic-word matrix": the zip loop.
RECURSIVE BuildMatrix(_, _, _)
BuildMatrix(tw, char, idx) ==
    IF idx > char.numwords THEN tw
    ELSE BuildMatrix([tw EXCEPT ![char.wordtypes[idx]][char.topicassigns[idx]] = @ + 1],
                     char, idx + 1)

BookIndex(books, bookname) ==
    IF \E i \in 1 .. Len(books) : books[i].name = bookname
    THEN CHOOSE i \in 1 .. Len(books) : books[i].name = bookname
    ELSE 0

\* load_characters, the branch that loads one character (len(wordtypes) in
\* range): st = [allbooks, twmatrix], line = [book, tokens].
LoadCharacter(st, line, nt) ==
    LET i == BookIndex(st.allbooks, line.book)
        thisbook == IF i = 0 THEN NewBook(line.book, nt) ELSE st.allbooks[i]
        made == NewCharacter(line.tokens, thisbook, nt)
        accepted == AcceptCharacter(made.book, made.char)
    IN  [allbooks |-> IF i = 0 THEN Append(st.allbooks, accepted)
                      ELSE [st.allbooks EXCEPT ![i] = accepted],
         twmatrix |-> BuildMatrix(st.twmatrix, made.char, 1)]

RECURSIVE LoadLines(_, _, _)
LoadLines(st, lines, nt) ==
    IF lines = <<>> THEN st
    ELSE LoadLines(LoadCharacter(st, Head(lines), nt), Tail(lines), nt)

\* The corpora of the sampler specifications: the characters are built by
\* the constructors above from token lists of at most MaxTokens tokens in all
\* (the length limits of load_characters are the subject of SpecLoad below).
TokenSeqs(n) == UNION {[1 .. m -> WordIds \X Topics] : m \in 1 .. n}

Max(a, b) == IF a >= b THEN a ELSE b

RECURSIVE Corpora(_, _)
Corpora(n, nb) ==
    {<<>>} \cup
    UNION {{<<[book |-> b, tokens |-> t]>> \o rest :
                rest \in Corpora(n - Len(t), Max(nb, b))} :
           b \in 1 .. (nb + 1), t \in TokenSeqs(n)}

\* ------------------------------------------------------------ the kernel
\* Exact rationals <<numerator, denominator>>; a zero denominator stands for
\* the result of a floating-point division by zero (inf or nan).
RAdd(a, b) == <<a[1] * b[2] + b[1] * a[2], a[2] * b[2]>>

Sign(n) == IF n > 0 THEN 1 ELSE IF n < 0 THEN -1 ELSE 0

RSign(a) == Sign(a[1]) * Sign(a[2])

RECURSIVE RSum(_, _)
RSum(f, S) == IF S = {} THEN <<0, 1>>
              ELSE LET x == CHOOSE y \in S : TRUE IN RAdd(f[x], RSum(f, S \ {x}))

\* (topicarray + alpha) * AlphaMeanDen, for topic k: the theme (role) count
\* over the book's totalwords (the character's numwords), plus
\* alpha[k] * alphamean.
TopicPlusAlpha(themearray, rolearray, book, char, al, k, nt) ==
    LET cnt == IF k < nt THEN themearray[k] ELSE rolearray[k - nt]
        tot == IF k < nt THEN book.totalwords ELSE char.numwords
    IN  <<cnt * al[k][2] * AlphaMeanDen + al[k][1] * tot, tot * al[k][2]>>

\* thiswordintopics * BetaDen = (wordarray + beta) * BetaDen / topicnormalizer,
\* for topic k
WordInTopic(wordarray, topicnormalizer, k) ==
    <<BetaDen * wordarray[k] + 1, topicnormalizer[k]>>

\* Mutant of KernelDecrement: the token is not taken out of the topic-word
\* matrix (wordarray[z] keeps its value).
KernelDecrementKeepsWord(sw, al, nt) ==
    LET book == sw.booksequence[sw.b]
        char == book.characters[sw.c]
        w == char.wordtypes[sw.idx]
        z == char.topicassigns[sw.idx]
        themearray == IF z < nt THEN Dec(book.themecounts, z) ELSE book.themecounts
        rolearray == IF z < nt THEN char.rolecounts ELSE Dec(char.rolecounts, z - nt)
        norm == Dec(sw.topicnormalizer, z)
        wit == [k \in Topics |-> WordInTopic(sw.twmatrix[w], norm, k)]
        dist == [k \in Topics |->
                    LET a == TopicPlusAlpha(themearray, rolearray, book, char, al, k, nt)
                    IN  <<a[1] * wit[k][1], a[2] * wit[k][2]>>]
    IN  [sw EXCEPT !.pc = "draw",
                   !.topicnormalizer = norm,
                   !.themearray = themearray,
                   !.rolearray = rolearray,
                   !.thiswordintopics = wit,
                   !.distribution = dist]

\* Mutant of KernelDecrement: the distribution is computed before the
\* decrements, from the counts that still include the token.
KernelDecrementAfterDistribution(sw, al, nt) ==
    LET book == sw.booksequence[sw.b]
        char == book.characters[sw.c]
        w == char.wordtypes[sw.idx]
        z == char.topicassigns[sw.idx]
        themearray == IF z < nt THEN Dec(book.themecounts, z) ELSE book.themecounts
        rolearray == IF z < nt THEN char.rolecounts ELSE Dec(char.rolecounts, z - nt)
        tw == [sw.twmatrix EXCEPT ![w][z] = @ - 1]
        norm == Dec(sw.topicnormalizer, z)
        wit == [k \in Topics |-> WordInTopic(sw.twmatrix[w], sw.topicnormalizer, k)]
        dist == [k \in Topics |->
                    LET a == TopicPlusAlpha(book.themecounts, char.rolecounts,
                                            book, char, al, k, nt)
                    IN  <<a[1] * wit[k][1], a[2] * wit[k][2]>>]
    IN  [sw EXCEPT !.pc = "draw",
                   !.twmatrix = tw,
                   !.topicnormalizer = norm,
                   !.themearray = themearray,
                   !.rolearray = rolearray,
                   !.thiswordintopics = wit,
                   !.distribution = dist]

\* gibbs.onepass lines 41-70 (infer_two_levels.onepass 276-305) for the token
\* at sw.b, sw.c, sw.idx: the decrements and the distribution (kept times the
\* constant AlphaMeanDen * BetaDen, which cancels in the probabilities).
KernelDecrement(sw, al, nt) ==
    LET book == sw.booksequence[sw.b]
        char == book.characters[sw.c]
        w == char.wordtypes[sw.idx]
        z == char.topicassigns[sw.idx]
        themearray == IF z < nt THEN Dec(book.themecounts, z) ELSE book.themecounts
        rolearray == IF z < nt THEN char.rolecounts ELSE Dec(char.rolecounts, z - nt)
        tw == [sw.twmatrix EXCEPT ![w][z] = @ - 1]
        norm == Dec(sw.topicnormalizer, z)
        wit == [k \in Topics |-> WordInTopic(tw[w], norm, k)]
        dist == [k \in Topics |->
                    LET a == TopicPlusAlpha(themearray, rolearray, book, char, al, k, nt)
                    IN  <<a[1] * wit[k][1], a[2] * wit[k][2]>>]
    IN  [sw EXCEPT !.pc = "draw",
                   !.twmatrix = tw,
                   !.topicnormalizer = norm,
                   !.themearray = themearray,
                   !.rolearray = rolearray,
                   !.thiswordintopics = wit,
                   !.distribution = dist]

\* np.random.choice(numtopics, size = 1, p = probabilities), with
\* probabilities = distribution / np.sum(distribution): the topics it can
\* return and whether it can raise ValueError.  A nan among the probabilities (a zero
\* divisor, or a zero sum) is rejected by some numpy versions and sampled
\* from by others: then the call may raise and may return any topic.
ChoiceIsNan(dist) ==
    \/ \E k \in Topics : dist[k][2] = 0
    \/ RSign(RSum(dist, Topics)) = 0

ChoiceRaises(dist) ==
    \/ ChoiceIsNan(dist)
    \/ \E k \in Topics : RSign(dist[k]) * RSign(RSum(dist, Topics)) < 0

ChoiceTopics(dist) ==
    IF ChoiceIsNan(dist) THEN Topics
    ELSE IF ChoiceRaises(dist) THEN {}
    ELSE {k \in Topics : RSign(dist[k]) # 0}

\* Mutant of AssignWord: the count of the existing topic is not decremented.
AssignWordKeepsOld(book, char, wordidx, newtopicnum, nt) ==
    LET c1 == [char EXCEPT !.topicassigns[wordidx] = newtopicnum]
    IN  [char |-> IF newtopicnum < nt THEN c1
                  ELSE [c1 EXCEPT !.rolecounts[newtopicnum - nt] = @ + 1],
         book |-> IF newtopicnum < nt
                  THEN IncrementDecrement(book, newtopicnum, 1) ELSE book]

\* Character.assignword: returns the changed character and book.
AssignWord(book, char, wordidx, newtopicnum, nt) ==
    LET existingtopic == char.topicassigns[wordidx]
        c1 == [char EXCEPT !.topicassigns[wordidx] = newtopicnum]
        b2 == IF existingtopic < nt
              THEN IncrementDecrement(book, existingtopic, -1) ELSE book
        c2 == IF existingtopic < nt THEN c1
              ELSE [c1 EXCEPT !.rolecounts[existingtopic - nt] = @ - 1]
        b3 == IF newtopicnum < nt
              THEN IncrementDecrement(b2, newtopicnum, 1) ELSE b2
        c3 == IF newtopicnum < nt THEN c2
              ELSE [c2 EXCEPT !.rolecounts[newtopicnum - nt] = @ + 1]
    IN  [char |-> c3, book |-> b3]

\* Mutant of KernelAssign: the matrix is incremented in the row of the old
\* topic's number instead of the word's.
KernelAssignWrongRow(sw, chosentopic, nt) ==
    LET book == sw.booksequence[sw.b]
        char == book.characters[sw.c]
        w == char.wordtypes[sw.idx]
        z == char.topicassigns[sw.idx]
        done == AssignWord(book, char, sw.idx, chosentopic, nt)
        newbook == [done.book EXCEPT !.characters[sw.c] = done.char]
        tw == [sw.twmatrix EXCEPT ![z % NumWordTypes][chosentopic] = @ + 1]
        norm == Inc(sw.topicnormalizer, chosentopic)
        sw1 == [sw EXCEPT !.booksequence[sw.b] = newbook,
                          !.twmatrix = tw,
                          !.topicnormalizer = norm,
                          !.same = IF chosentopic = z THEN @ + 1 ELSE @,
                          !.different = IF chosentopic = z THEN @ ELSE @ + 1]
    IN  IF sw.idx < char.numwords
        THEN [sw1 EXCEPT !.pc = "token", !.idx = @ + 1]
        ELSE IF sw.c < Len(book.characters)
        THEN [sw1 EXCEPT !.pc = "token", !.c = @ + 1, !.idx = 1]
        ELSE IF sw.b < Len(sw.booksequence)
        THEN [sw1 EXCEPT !.pc = "token", !.b = @ + 1, !.c = 1, !.idx = 1,
                         !.topicnormalizer = ColumnSums(tw)]
        ELSE [sw1 EXCEPT !.pc = "end"]

\* gibbs.onepass lines 82-89 (infer_two_levels.onepass 308-315) with the
\* drawn topic, then the loop headers: the next token, the next character,
\* or the next book (where topicnormalizer is recomputed, line 34).  Every
\* loaded book has a character and every character a token.
KernelAssign(sw, chosentopic, nt) ==
    LET book == sw.booksequence[sw.b]
        char == book.characters[sw.c]
        w == char.wordtypes[sw.idx]
        z == char.topicassigns[sw.idx]
        done == AssignWord(book, char, sw.idx, chosentopic, nt)
        newbook == [done.book EXCEPT !.characters[sw.c] = done.char]
        tw == [sw.twmatrix EXCEPT ![w][chosentopic] = @ + 1]
        norm == Inc(sw.topicnormalizer, chosentopic)
        sw1 == [sw EXCEPT !.booksequence[sw.b] = newbook,
                          !.twmatrix = tw,
                          !.topicnormalizer = norm,
                          !.same = IF chosentopic = z THEN @ + 1 ELSE @,
                          !.different = IF chosentopic = z THEN @ ELSE @ + 1]
    IN  IF sw.idx < char.numwords
        THEN [sw1 EXCEPT !.pc = "token", !.idx = @ + 1]
        ELSE IF sw.c < Len(book.characters)
        THEN [sw1 EXCEPT !.pc = "token", !.c = @ + 1, !.idx = 1]
        ELSE IF sw.b < Len(sw.booksequence)
        THEN [sw1 EXCEPT !.pc = "token", !.b = @ + 1, !.c = 1, !.idx = 1,
                         !.topicnormalizer = ColumnSums(tw)]
        ELSE [sw1 EXCEPT !.pc = "end"]

\* ---------------------------------------------------------------- shuffle
ShuffleOrders(n) == {f \in [1 .. n -> 1 .. n] : \A i, j \in 1 .. n : f[i] = f[j] => i = j}

\* Mutant of Stride: the slice booklist[i : i + n] instead of booklist[i :: n].
StrideWindow(list, i, n) ==
    LET cnt == IF Len(list) > i THEN (IF Len(list) - i < n THEN Len(list) - i ELSE n) ELSE 0
    IN  [j \in 1 .. cnt |-> list[i + j]]

\* booklist[i::n], i being 0-based
Stride(list, i, n) ==
    LET cnt == IF Len(list) > i THEN ((Len(list) - i - 1) \div n) + 1 ELSE 0
    IN  [j \in 1 .. cnt |-> list[i + 1 + (j - 1) * n]]

\* shuffledivide: random.shuffle(booklist) puts booklist into the order perm
\* (in place), then the slices.
ShuffleDivide(list, n, perm) ==
    LET shuffled == [j \in 1 .. Len(list) |-> list[perm[j]]]
    IN  [booklist |-> shuffled,
         booksequences |-> [i \in 0 .. (n - 1) |-> Stride(shuffled, i, n)]]

\* ------------------------------------------------------------------ audit
RECURSIVE CountCharacter(_, _, _)
CountCharacter(newmat, char, idx) ==
    IF idx > char.numwords THEN newmat
    ELSE CountCharacter([newmat EXCEPT ![char.wordtypes[idx]][char.topicassigns[idx]] = @ + 1],
                        char, idx + 1)

RECURSIVE CountCharacters(_, _)
CountCharacters(newmat, chars) ==
    IF chars = <<>> THEN newmat
    ELSE CountCharacters(CountCharacter(newmat, Head(chars), 1), Tail(chars))

RECURSIVE CountBooks(_, _)
CountBooks(newmat, books) ==
    IF books = <<>> THEN newmat
    ELSE CountBooks(CountCharacters(newmat, Head(books).characters), Tail(books))

\* recreate_matrix: the matrix it returns
RecreateMatrix(books) == CountBooks(ZeroMatrix, books)

\* recreate_matrix: its two assertions
RecreateAsserts(books, tw) ==
    /\ \A i \in 1 .. Len(books) :
          books[i].totalwords =
              SumSeq([c \in 1 .. Len(books[i].characters) |->
                          Len(books[i].characters[c].topicassigns)])
    /\ MatrixSum(tw) = MatrixSum(RecreateMatrix(books))

\* __main__ lines 432-434: the audit passes
AuditPasses(books, tw) ==
    /\ RecreateAsserts(books, tw)
    /\ RecreateMatrix(books) = tw

AuditDue(i) == i % AuditEvery = AuditPhase

\* ------------------------------------------------------------ alpha rescale
\* __main__ lines 392-397 on newalpha = n: n / np.mean(n), then the two
\* comparisons.  np.mean(n) is total / len(n); with total = 0 the quotient is
\* nan (<<0, 0>>), which neither comparison replaces.
ClampedRatio(n) ==
    LET len == Cardinality(DOMAIN n)
        total == SumFn(n, DOMAIN n)
    IN  [k \in DOMAIN n |->
            IF total > 0 /\ n[k] * len > 2 * total THEN <<2, 1>>
            ELSE IF total > 0 /\ 2 * n[k] * len < total THEN <<1, 2>>
            ELSE <<n[k] * len, total>>]

\* __main__ lines 391-398: alpha / alphamean after the rescale
RescaledAlpha(tw) == ClampedRatio(ColumnSums(tw))

RescaleDue(i) == i % RescaleEvery = 0 /\ i > RescaleAfter

\* Mutant of RandomSeed: the seed also depends on when the program is run.
RandomSeedFromRun(s, i) == ((s + 1) * (i + 1) + rng.run) % SeedModulus

\* random_seeds[s] of line 406
RandomSeed(s, i) == ((s + 1) * (i + 1)) % SeedModulus

\* ------------------------------------------------------------------ state
Procs == 0 .. (numprocesses - 1)

\* The locals of a sweep that has not started (or whose process has ended).
IdleWorker ==
    [pc |-> "idle",
     booksequence |-> <<>>,
     twmatrix |-> ZeroMatrix,
     oldmatrix |-> ZeroMatrix,
     theseed |-> 0,
     b |-> 0, c |-> 0, idx |-> 0,
     topicnormalizer |-> Zeros(Topics),
     themearray |-> <<>>,
     rolearray |-> <<>>,
     thiswordintopics |-> <<>>,
     distribution |-> <<>>,
     same |-> 0,
     different |-> 0,
     printed |-> <<>>,
     changematrix |-> ZeroMatrix]

\* The sweep's locals once the token's topic is assigned: themearray,
\* rolearray, thiswordintopics and distribution are dead until the next
\* token overwrites them.
ClearLocals(sw) ==
    [sw EXCEPT !.themearray = <<>>, !.rolearray = <<>>,
               !.thiswordintopics = <<>>, !.distribution = <<>>]

\* The random streams.  With replay off every draw and shuffle is free.  With
\* replay on, the outcome of the n-th np.random.choice after
\* np.random.seed(seed) on the distribution dist, and of the j-th
\* random.shuffle of the coordinator, is recorded at its first use and
\* repeated at every later use: a seeded generator is a function of its seed.
FreshRng(replay, perm, start) ==
    [replay |-> replay, run |-> 1, nshuffles |-> 1,
     shuffles |-> IF replay THEN <<perm>> ELSE <<>>,
     draws |-> {},
     start |-> IF replay THEN start ELSE <<>>,
     first |-> <<>>]

DrawKey(sw) == <<sw.theseed, sw.same + sw.different, sw.distribution>>

DrawAllowed(sw, outcome) ==
    rng.replay => \A e \in rng.draws : e.key = DrawKey(sw) => e.outcome = outcome

DrawRecorded(sw, outcome) ==
    IF rng.replay
    THEN [rng EXCEPT !.draws = @ \cup {[key |-> DrawKey(sw), outcome |-> outcome]}]
    ELSE rng

ShuffleAllowed(perm) ==
    (rng.replay /\ rng.nshuffles < Len(rng.shuffles)) => perm = rng.shuffles[rng.nshuffles + 1]

ShuffleRecorded(perm) ==
    IF rng.replay
    THEN [rng EXCEPT !.nshuffles = @ + 1,
                     !.shuffles = IF rng.nshuffles < Len(@) THEN @ ELSE Append(@, perm)]
    ELSE rng

NoReference == [pc |-> "none"]

NotLoading ==
    [file |-> <<>>, sofar |-> 0, reading |-> FALSE, allbooks |-> <<>>, twsum |-> 0,
     calls |-> 0, stored |-> 0]

\* The state after load_characters and __main__ lines 374-379.  The parallel
\* branch never reads allbooks again once booklist is built from it (the
\* workers change pickled copies, which come back in booklist), so the model
\* keeps allbooks for the single-process branch only.
InitWith(replay, procs, maxtokens, iterations) ==
    \E nt \in 0 .. NumTopics, np \in procs, corpus \in Corpora(maxtokens, 0) :
        LET st == LoadLines([allbooks |-> <<>>, twmatrix |-> ZeroMatrix], corpus, nt)
        IN  /\ numthemes = nt
            /\ numprocesses = np
            /\ numiterations = iterations
            /\ allbooks = IF np > 1 THEN <<>> ELSE st.allbooks
            /\ twmatrix = st.twmatrix
            /\ \E perm \in ShuffleOrders(Len(st.allbooks)) :
                  /\ IF np > 1
                     THEN LET sd == ShuffleDivide(st.allbooks, np, perm)
                          IN  booklist = sd.booklist /\ booksequences = sd.booksequences
                     ELSE booklist = <<>> /\ booksequences = <<>>
                  /\ rng = FreshRng(replay, IF np > 1 THEN perm ELSE <<>>, st)
            /\ iteration = 0
            /\ alpha = [k \in Topics |-> <<1, 1>>]
            /\ pc = "loop"
            /\ worker = [s \in 0 .. (np - 1) |-> IdleWorker]
            /\ load = NotLoading
            /\ ref = NoReference

Init == InitWith(FALSE, 1 .. MaxProcesses, MaxTokens, NumIterations)

\* ------------------------------------------------- the parallel branch
\* Mutant of DispatchShards: every process is handed the whole booklist.
DispatchWholeList ==
    /\ pc = "loop"
    /\ iteration < numiterations
    /\ alpha' = IF RescaleDue(iteration) THEN RescaledAlpha(twmatrix) ELSE alpha
    /\ worker' = [s \in Procs |->
                    [IdleWorker EXCEPT !.pc = "start",
                                       !.booksequence = booklist,
                                       !.twmatrix = twmatrix,
                                       !.theseed = RandomSeed(s, iteration)]]
    /\ pc' = "wait"
    /\ UNCHANGED <<load, ref, numiterations, numthemes, numprocesses, allbooks, twmatrix, booklist,
                   booksequences, iteration, rng>>

\* __main__ lines 381-401 and 405-418: the head of an iteration (alpha
\* rescale), then the quadruplets handed to the pool.
DispatchShards ==
    /\ pc = "loop"
    /\ iteration < numiterations
    /\ alpha' = IF RescaleDue(iteration) THEN RescaledAlpha(twmatrix) ELSE alpha
    /\ worker' = [s \in Procs |->
                    [IdleWorker EXCEPT !.pc = "start",
                                       !.booksequence = booksequences[s],
                                       !.twmatrix = twmatrix,
                                       !.theseed = RandomSeed(s, iteration)]]
    /\ pc' = "wait"
    /\ UNCHANGED <<load, ref, numiterations, numthemes, numprocesses, allbooks, twmatrix, booklist,
                   booksequences, iteration, rng>>

\* __main__ lines 381-418, the branch of numprocesses > 1 (line 403)
Dispatch == numprocesses > 1 /\ DispatchShards

\* Mutant of Returned: the worker returns its matrix, not the difference.
ReturnedWholeMatrix(sw) ==
    [sw EXCEPT !.pc = "ret", !.changematrix = sw.twmatrix]

\* gibbs.onepass lines 91-98: the change ratio printed (a rational) and the
\* matrix of the value returned
Returned(sw) ==
    [sw EXCEPT !.pc = "ret",
               !.printed = <<sw.different, sw.same + 1>>,
               !.changematrix = MatrixSub(sw.twmatrix, sw.oldmatrix)]

\* Mutant of ReturnValue: the books are handed back last first.
ReturnValueReversed(sw) ==
    <<sw.changematrix,
      [j \in 1 .. Len(sw.booksequence) |->
          sw.booksequence[Len(sw.booksequence) + 1 - j]]>>

\* gibbs.onepass line 98: the tuple a finished sweep returns
ReturnValue(sw) == <<sw.changematrix, sw.booksequence>>

\* gibbs.onepass lines 16-34: seeding, oldmatrix, and the first book's
\* topicnormalizer (an empty shard returns at once).
Begin(s) ==
    /\ pc = "wait"
    /\ worker[s].pc = "start"
    /\ LET sw == [worker[s] EXCEPT !.oldmatrix = worker[s].twmatrix]
       IN  worker' = [worker EXCEPT ![s] =
                IF sw.booksequence = <<>> THEN Returned(sw)
                ELSE [sw EXCEPT !.pc = "token", !.b = 1, !.c = 1, !.idx = 1,
                                !.topicnormalizer = ColumnSums(sw.twmatrix)]]
    /\ UNCHANGED <<load, ref, numiterations, numthemes, numprocesses, allbooks, twmatrix, booklist,
                   booksequences, iteration, alpha, pc, rng>>

\* gibbs.onepass lines 41-70 for the next token of worker s
Decrement(s) ==
    /\ pc = "wait"
    /\ worker[s].pc = "token"
    /\ worker' = [worker EXCEPT ![s] = KernelDecrement(worker[s], alpha, numthemes)]
    /\ UNCHANGED <<load, ref, numiterations, numthemes, numprocesses, allbooks, twmatrix, booklist,
                   booksequences, iteration, alpha, pc, rng>>

\* gibbs.onepass lines 75-89 (and 91-98 after the last token)
Draw(s) ==
    /\ pc = "wait"
    /\ worker[s].pc = "draw"
    /\ \E chosentopic \in ChoiceTopics(worker[s].distribution) :
          /\ DrawAllowed(worker[s], chosentopic)
          /\ rng' = DrawRecorded(worker[s], chosentopic)
          /\ LET sw == ClearLocals(KernelAssign(worker[s], chosentopic, numthemes))
             IN  worker' = [worker EXCEPT ![s] =
                                IF sw.pc = "end" THEN Returned(sw) ELSE sw]
    /\ UNCHANGED <<load, ref, numiterations, numthemes, numprocesses, allbooks, twmatrix, booklist,
                   booksequences, iteration, alpha, pc>>

\* np.random.choice raises ValueError: the worker's task fails.
DrawFails(s) ==
    /\ pc = "wait"
    /\ worker[s].pc = "draw"
    /\ ChoiceRaises(worker[s].distribution)
    /\ DrawAllowed(worker[s], NumTopics)
    /\ rng' = DrawRecorded(worker[s], NumTopics)
    /\ worker' = [worker EXCEPT ![s].pc = "failed"]
    /\ UNCHANGED <<load, ref, numiterations, numthemes, numprocesses, allbooks, twmatrix, booklist,
                   booksequences, iteration, alpha, pc>>

\* Mutant of MergeOne: each result is added to the matrix that was
\* dispatched, so the result merged last overwrites the others.
MergeOneOntoSnapshot(tw, changematrix) == MatrixAdd(twmatrix, changematrix)

\* __main__ line 428, for one result
MergeOne(tw, changematrix) == MatrixAdd(tw, changematrix)

\* __main__ lines 424-428: the results are taken in the order of the shards,
\* each unpacked as changematrix, bookseq
RECURSIVE MergeFrom(_, _, _)
MergeFrom(st, results, s) ==
    IF s > Len(results) THEN st
    ELSE MergeFrom([booklist |-> st.booklist \o results[s][2],
                    twmatrix |-> MergeOne(st.twmatrix, results[s][1])],
                   results, s + 1)

ResultList == [s \in 1 .. numprocesses |-> ReturnValue(worker[s - 1])]

Merged == MergeFrom([booklist |-> <<>>, twmatrix |-> twmatrix], ResultList, 1)

\* __main__ lines 419-422: res.get() re-raises the exception of a failed task
CollectFails ==
    /\ pc = "wait"
    /\ \A s \in Procs : worker[s].pc \in {"ret", "failed"}
    /\ \E s \in Procs : worker[s].pc = "failed"
    /\ pc' = "aborted"
    /\ UNCHANGED <<load, ref, numiterations, numthemes, numprocesses, allbooks, twmatrix, booklist,
                   booksequences, iteration, alpha, worker, rng>>

\* __main__ lines 419-436: merge, the new shards, and the audit when due
Collect ==
    /\ pc = "wait"
    /\ \A s \in Procs : worker[s].pc = "ret"
    /\ \E perm \in ShuffleOrders(Len(Merged.booklist)) :
          /\ ShuffleAllowed(perm)
          /\ rng' = ShuffleRecorded(perm)
          /\ LET sd == ShuffleDivide(Merged.booklist, numprocesses, perm)
             IN  /\ booklist' = sd.booklist
                 /\ booksequences' = sd.booksequences
    /\ twmatrix' = Merged.twmatrix
    /\ worker' = [s \in Procs |-> IdleWorker]
    /\ IF AuditDue(iteration) /\ ~AuditPasses(booklist', twmatrix')
       THEN pc' = "aborted" /\ iteration' = iteration
       ELSE /\ iteration' = iteration + 1
            /\ pc' = IF iteration + 1 < numiterations THEN "loop" ELSE "done"
    /\ UNCHANGED <<load, ref, numiterations, numthemes, numprocesses, allbooks, alpha>>

\* ------------------------------------------- the single-process branch
\* infer_two_levels.onepass works on allbooks and on the coordinator's
\* twmatrix in place; its other locals are kept in worker[0].
SweepView == [worker[0] EXCEPT !.booksequence = allbooks, !.twmatrix = twmatrix]

SweepLocals(sw) == [sw EXCEPT !.booksequence = <<>>, !.twmatrix = ZeroMatrix]

\* __main__ lines 381-401 and 440, infer_two_levels.onepass lines 260-269.
\* Without a book the loop body never runs and line 317 divides by same = 0.
SeqBegin ==
    /\ pc = "loop"
    /\ ~(numprocesses > 1)
    /\ iteration < numiterations
    /\ alpha' = IF RescaleDue(iteration) THEN RescaledAlpha(twmatrix) ELSE alpha
    /\ IF allbooks = <<>>
       THEN pc' = "aborted" /\ worker' = [worker EXCEPT ![0].pc = "zerodivision"]
       ELSE /\ pc' = "pass"
            /\ worker' = [worker EXCEPT ![0] =
                            [IdleWorker EXCEPT !.pc = "token",
                                               !.b = 1, !.c = 1, !.idx = 1,
                                               !.topicnormalizer = ColumnSums(twmatrix)]]
    /\ UNCHANGED <<load, ref, numiterations, numthemes, numprocesses, allbooks, twmatrix, booklist,
                   booksequences, iteration, rng>>

\* infer_two_levels.onepass lines 276-305
SeqDecrement ==
    /\ pc = "pass"
    /\ worker[0].pc = "token"
    /\ LET sw == KernelDecrement(SweepView, alpha, numthemes)
       IN  /\ twmatrix' = sw.twmatrix
           /\ worker' = [worker EXCEPT ![0] = SweepLocals(sw)]
    /\ UNCHANGED <<load, ref, numiterations, numthemes, numprocesses, allbooks, booklist, booksequences,
                   iteration, alpha, pc, rng>>

\* infer_two_levels.onepass lines 306-317; print(different / same) raises
\* ZeroDivisionError when no token kept its topic.
SeqDraw ==
    /\ pc = "pass"
    /\ worker[0].pc = "draw"
    /\ \E choice \in ChoiceTopics(worker[0].distribution) :
          LET sw == ClearLocals(KernelAssign(SweepView, choice, numthemes))
          IN  /\ twmatrix' = sw.twmatrix
              /\ allbooks' = sw.booksequence
              /\ IF sw.pc # "end"
                 THEN /\ worker' = [worker EXCEPT ![0] = SweepLocals(sw)]
                      /\ pc' = pc /\ iteration' = iteration
                 ELSE /\ worker' = [worker EXCEPT ![0] =
                                         [IdleWorker EXCEPT !.pc =
                                             IF sw.same = 0 THEN "zerodivision"
                                             ELSE "idle"]]
                      /\ IF sw.same = 0
                         THEN pc' = "aborted" /\ iteration' = iteration
                         ELSE /\ iteration' = iteration + 1
                              /\ pc' = IF iteration + 1 < numiterations
                                       THEN "loop" ELSE "done"
    /\ UNCHANGED <<load, ref, numiterations, numthemes, numprocesses, booklist, booksequences, alpha, rng>>

\* np.random.choice raises ValueError in the single-process sweep
SeqDrawFails ==
    /\ pc = "pass"
    /\ worker[0].pc = "draw"
    /\ ChoiceRaises(worker[0].distribution)
    /\ pc' = "aborted"
    /\ worker' = [worker EXCEPT ![0].pc = "failed"]
    /\ UNCHANGED <<load, ref, numiterations, numthemes, numprocesses, allbooks, twmatrix, booklist,
                   booksequences, iteration, alpha, rng>>

\* ---------------------------------------------------------- specification
\* The iteration loop when numprocesses > 1
ParallelNext ==
    \/ Dispatch
    \/ \E s \in Procs : Begin(s)
    \/ \E s \in Procs : Decrement(s)
    \/ \E s \in Procs : Draw(s)
    \/ \E s \in Procs : DrawFails(s)
    \/ CollectFails
    \/ Collect

Next ==
    \/ ParallelNext
    \/ SeqBegin
    \/ SeqDecrement
    \/ SeqDraw
    \/ SeqDrawFails

Spec == Init /\ [][Next]_vars

\* ------------------------------------------------------------- properties
numroles == NumTopics - numthemes

\* The books the coordinator holds: booklist in the parallel branch,
\* allbooks in the single-process branch.
Corpus == IF numprocesses > 1 THEN booklist ELSE allbooks

SeqRange(q) == {q[i] : i \in 1 .. Len(q)}

\* Every copy of a book there is: the coordinator's and the workers'.
BookCopies ==
    SeqRange(allbooks) \cup SeqRange(booklist)
        \cup UNION {SeqRange(worker[s].booksequence) : s \in Procs}

\* The tokens of a list of books with word-type w and assignment k
TokensAt(books, w, k) ==
    {<<b, c, i>> \in (1 .. Len(books)) \X (1 .. MaxTokens) \X (1 .. MaxTokens) :
        /\ c <= Len(books[b].characters)
        /\ i <= books[b].characters[c].numwords
        /\ books[b].characters[c].wordtypes[i] = w
        /\ books[b].characters[c].topicassigns[i] = k}

\* The positions of a book's tokens with assignment k
PositionsAt(book, k) ==
    {<<c, i>> \in (1 .. Len(book.characters)) \X (1 .. MaxTokens) :
        /\ i <= book.characters[c].numwords
        /\ book.characters[c].topicassigns[i] = k}

TotalTokens(books) ==
    SumSeq([b \in 1 .. Len(books) |->
               SumSeq([c \in 1 .. Len(books[b].characters) |->
                          books[b].characters[c].numwords])])

AtIterationBoundary == pc \in {"loop", "done"}

\* C1: after every merge (and at every iteration boundary of the
\* single-process branch) TW[w,k] is the number of tokens of the corpus with
\* word-type w and current assignment k.
C1_MergedMatrixCountsTokens ==
    AtIterationBoundary =>
        \A w \in WordIds, k \in Topics :
            twmatrix[w][k] = Cardinality(TokensAt(Corpus, w, k))

C1_Witness ==
    /\ pc = "loop" /\ iteration = 1 /\ numprocesses = 2
    /\ Len(booklist) = 3
    /\ \E k \in Topics : Cardinality(TokensAt(Corpus, 0, k)) = 2

\* C2: in every copy of every book, rolecounts[r] of a character is the
\* number of its positions assigned topic numthemes + r, and themecounts[t]
\* of the book is the number of its tokens assigned theme t.
C2_CountsMatchAssignments ==
    \A book \in BookCopies :
        /\ \A t \in 0 .. (numthemes - 1) :
              book.themecounts[t] = Cardinality(PositionsAt(book, t))
        /\ \A c \in 1 .. Len(book.characters) :
              \A r \in 0 .. (numroles - 1) :
                  book.characters[c].rolecounts[r] =
                      Cardinality({i \in 1 .. book.characters[c].numwords :
                          book.characters[c].topicassigns[i] - numthemes = r})

C2_Witness ==
    /\ numthemes = 1
    /\ \E s \in Procs :
          /\ worker[s].pc = "token"
          /\ worker[s].different = 1 /\ worker[s].same = 1
          /\ Len(worker[s].booksequence) = 1
          /\ Len(worker[s].booksequence[1].characters) = 2

\* C3: at the division of line 67 every divisor topicnormalizer[k] is
\* strictly positive.
C3_DivisorPositive ==
    \A s \in Procs :
        worker[s].pc = "draw" =>
            \A k \in Topics : worker[s].thiswordintopics[k][2] > 0

NonNegative(f) == \A x \in DOMAIN f : f[x] >= 0

\* C4: no count is negative: theme counts, role counts, each worker's
\* topic-word matrix and topicnormalizer, and the global topic-word matrix.
C4_CountsNonNegative ==
    /\ \A book \in BookCopies :
          /\ NonNegative(book.themecounts)
          /\ \A c \in 1 .. Len(book.characters) :
                NonNegative(book.characters[c].rolecounts)
    /\ \A s \in Procs :
          /\ \A w \in WordIds : NonNegative(worker[s].twmatrix[w])
          /\ NonNegative(worker[s].topicnormalizer)
    /\ \A w \in WordIds : NonNegative(twmatrix[w])

C4_Witness ==
    \E s \in Procs :
        /\ pc = "wait" /\ worker[s].pc = "token" /\ worker[s].b = 2
        /\ \E k \in Topics : worker[s].topicnormalizer[k] = 0
        /\ \E w \in WordIds, k \in Topics : worker[s].twmatrix[w][k] = 0
        /\ worker[s].different = 1

\* C5: after initialization and after every merge the entries of the global
\* topic-word matrix add up to the number of tokens of the corpus.
C5_MassConserved ==
    (numprocesses > 1 \/ AtIterationBoundary) =>
        SumFn(ColumnSums(twmatrix), Topics) = TotalTokens(Corpus)

C5_Witness ==
    /\ pc = "loop" /\ iteration = 1 /\ numprocesses = 2
    /\ TotalTokens(Corpus) = MaxTokens
    /\ \E k \in Topics : ColumnSums(twmatrix)[k] = 0

\* --------------------------------------------- shuffledivide on its own
MaxShuffled == 4

\* Any list of up to MaxShuffled books and any n >= 1.
InitDivide ==
    \E len \in 0 .. MaxShuffled, n \in 1 .. (MaxProcesses + 1) :
        /\ numthemes = 0
        /\ numprocesses = n
        /\ numiterations = NumIterations
        /\ allbooks = [i \in 1 .. len |-> NewBook(i, 0)]
        /\ booklist = allbooks
        /\ booksequences = <<>>
        /\ twmatrix = ZeroMatrix
        /\ iteration = 0
        /\ alpha = [k \in Topics |-> <<1, 1>>]
        /\ pc = "divide"
        /\ worker = [s \in 0 .. (n - 1) |-> IdleWorker]
        /\ rng = FreshRng(FALSE, <<>>, <<>>)
        /\ load = NotLoading
        /\ ref = NoReference

\* booksequences = shuffledivide(booklist, numprocesses)
Divide ==
    /\ pc \in {"divide", "divided"}
    /\ \E perm \in ShuffleOrders(Len(booklist)) :
          LET sd == ShuffleDivide(booklist, numprocesses, perm)
          IN  booklist' = sd.booklist /\ booksequences' = sd.booksequences
    /\ pc' = "divided"
    /\ UNCHANGED <<load, ref, numiterations, numthemes, numprocesses, allbooks, twmatrix, iteration,
                   alpha, worker, rng>>

SpecDivide == InitDivide /\ [][Divide]_vars

\* The places <<s, j>> of the shards that hold the book
PlacesOf(book) ==
    {<<s, j>> \in Procs \X (1 .. Len(booklist)) :
        j <= Len(booksequences[s]) /\ booksequences[s][j] = book}

\* C6: shard s holds the books at positions s, s+P, s+2P, ... of the
\* shuffled list, and every book of the list given to shuffledivide is in
\* exactly one place of exactly one shard.
C6_ShardsPartitionBooks ==
    pc = "divided" =>
        /\ DOMAIN booksequences = Procs
        /\ \A s \in Procs, j \in 1 .. Len(booklist) :
              IF s + (j - 1) * numprocesses < Len(booklist)
              THEN /\ j <= Len(booksequences[s])
                   /\ booksequences[s][j] = booklist[s + (j - 1) * numprocesses + 1]
              ELSE j > Len(booksequences[s])
        /\ \A book \in SeqRange(allbooks) : Cardinality(PlacesOf(book)) = 1
        /\ \A s \in Procs : SeqRange(booksequences[s]) \subseteq SeqRange(allbooks)

C6_Witness ==
    /\ pc = "divided" /\ numprocesses = 3
    /\ Len(booklist) = 4 /\ booklist # allbooks
    /\ Len(booksequences[0]) = 2 /\ Len(booksequences[2]) = 1

\* Fewer books than shards: the last shard is empty.
C6_WitnessFewBooks ==
    /\ pc = "divided" /\ numprocesses = 3 /\ Len(booklist) = 2
    /\ booksequences[2] = <<>>

\* ------------------------------------------------------ order of the merge
RECURSIVE MergeInOrder(_, _, _)
MergeInOrder(tw, order, j) ==
    IF j > Len(order) THEN tw
    ELSE MergeInOrder(MergeOne(tw, worker[order[j] - 1].changematrix), order, j + 1)

AllReturned == pc = "wait" /\ \A s \in Procs : worker[s].pc = "ret"

\* C7: adding the workers' delta matrices to the global matrix in any order
\* gives the matrix the coordinator's merge gives.
C7_MergeOrderIndependent ==
    AllReturned =>
        \A order \in ShuffleOrders(numprocesses) :
            MergeInOrder(twmatrix, order, 1) = Merged.twmatrix

C7_Witness ==
    /\ AllReturned
    /\ worker[0].changematrix # ZeroMatrix
    /\ worker[1].changematrix # ZeroMatrix
    /\ worker[0].changematrix # worker[1].changematrix

\* ------------------------------------------- load_characters on a file
\* Here a character is known by the number of its words only: a line of the
\* file is [book, inlexicon, others], the numbers of its words that are and
\* are not in the lexicon, and a loaded book is [name, totalwords,
\* characters (the numwords of each), counted], counted being the sum of its
\* themecounts and of the rolecounts of its characters.  load.twsum is
\* np.sum(twmatrix).
MaxLines == 2

LineLengths == {0, 9, 10, 32700, 32701, 32767, 32768}

\* A line of the file: its book, the number of its words that are in the
\* lexicon and of those that are not, and where random.sample of
\* Character.__init__ puts its words: none, one or all of them in role 0,
\* the others in role 1.
FileLinesWith(books, others, roulettes) ==
    [book : books, inlexicon : LineLengths, others : others, roulette : roulettes]

FileLines == FileLinesWith(1 .. 2, {0, 25}, {"all"})

Files == UNION {[1 .. n -> FileLines] : n \in 0 .. (MaxLines + 1)}

InitLoadFrom(files) ==
    \E file \in files :
        /\ load = [file |-> file, sofar |-> 0, reading |-> TRUE,
                   allbooks |-> <<>>, twsum |-> 0, calls |-> 0, stored |-> 0]
        /\ numthemes = 0
        /\ numprocesses = 1
        /\ numiterations = NumIterations
        /\ allbooks = <<>>
        /\ booklist = <<>>
        /\ booksequences = <<>>
        /\ twmatrix = ZeroMatrix
        /\ iteration = 0
        /\ alpha = [k \in Topics |-> <<1, 1>>]
        /\ pc = "load"
        /\ worker = [s \in 0 .. 0 |-> IdleWorker]
        /\ rng = FreshRng(FALSE, <<>>, <<>>)
        /\ ref = NoReference

InitLoad == InitLoadFrom(Files)

\* len(wordtypes) after lines 197-199
NumWordtypes(line) == line.inlexicon

\* A value stored in an array of dtype int16
Int16(n) == ((n + 32768) % 65536) - 32768

\* Character.__init__ lines 91-108 on the counts: rolecounts after the loop
\* over the n words (numthemes = 0: every topic is a role)
InitialRoleCounts(line) ==
    LET n == NumWordtypes(line)
        a == IF line.roulette = "all" THEN n
             ELSE IF line.roulette = "one" /\ n > 0 THEN 1 ELSE 0
    IN  [r \in Topics |-> IF r = 0 THEN Int16(a)
                          ELSE IF r = 1 THEN Int16(n - a) ELSE 0]

\* Mutant of Accepted: the test for a character that is too long is left out.
AcceptedAnyLength(line) == NumWordtypes(line) > TooShort

\* Mutant of Accepted: len(wordtypes) > 9 written as >= 9.
AcceptedFromNine(line) ==
    ~(NumWordtypes(line) > TooLong) /\ NumWordtypes(line) >= TooShort

\* lines 201-205: the character is neither too long nor too short
Accepted(line) ==
    ~(NumWordtypes(line) > TooLong) /\ NumWordtypes(line) > TooShort

\* lines 207-222 on the counts
LoadCounted(st, line) ==
    LET n == NumWordtypes(line)
        i == BookIndex(st.allbooks, line.book)
        thisbook == IF i = 0
                    THEN [name |-> line.book, totalwords |-> 0,
                          characters |-> <<>>, rolecounts |-> <<>>, counted |-> 0]
                    ELSE st.allbooks[i]
        accepted == [thisbook EXCEPT !.counted = @ + n,
                                     !.characters = Append(@, n),
                                     !.rolecounts = Append(@, InitialRoleCounts(line)),
                                     !.totalwords = @ + n]
    IN  [st EXCEPT !.allbooks = IF i = 0 THEN Append(@, accepted)
                                ELSE [@ EXCEPT ![i] = accepted],
                   !.twsum = @ + n]

\* load_characters lines 185-222: one turn of the loop over the file
ReadLine ==
    /\ load.reading
    /\ load.sofar < Len(load.file)
    /\ LET st == [load EXCEPT !.sofar = @ + 1]
           line == load.file[st.sofar]
       IN  load' = IF st.sofar > MaxLines THEN [st EXCEPT !.reading = FALSE]
                   ELSE IF Accepted(line) THEN LoadCounted(st, line)
                   ELSE st
    /\ UNCHANGED <<ref, numiterations, numthemes, numprocesses, allbooks, twmatrix, booklist,
                   booksequences, iteration, alpha, pc, worker, rng>>

\* load_characters line 224: the file is exhausted
EndOfFile ==
    /\ load.reading
    /\ load.sofar = Len(load.file)
    /\ load' = [load EXCEPT !.reading = FALSE]
    /\ UNCHANGED <<ref, numiterations, numthemes, numprocesses, allbooks, twmatrix, booklist,
                   booksequences, iteration, alpha, pc, worker, rng>>

NextLoad == ReadLine \/ EndOfFile

SpecLoad == InitLoad /\ [][NextLoad]_vars

\* The lines load_characters has dealt with so far
LinesRead ==
    SubSeq(load.file, 1, IF load.sofar > MaxLines THEN MaxLines ELSE load.sofar)

RECURSIVE KeptOf(_, _, _, _)
\* The lengths of the lines of book name whose length lies in lo .. hi
KeptOf(lines, name, lo, hi) ==
    IF lines = <<>> THEN <<>>
    ELSE LET l == Head(lines)
             rest == KeptOf(Tail(lines), name, lo, hi)
         IN  IF l.book = name /\ l.inlexicon >= lo /\ l.inlexicon <= hi
             THEN <<l.inlexicon>> \o rest ELSE rest

\* What is loaded is exactly the characters read so far with lo <= n <= hi,
\* each in its book; no other character has changed a count or made a book.
LoadedExactly(lo, hi) ==
    /\ \A name \in 1 .. 2 :
          LET kept == KeptOf(LinesRead, name, lo, hi)
              i == BookIndex(load.allbooks, name)
          IN  IF kept = <<>> THEN i = 0
              ELSE /\ i # 0
                   /\ load.allbooks[i].characters = kept
                   /\ load.allbooks[i].totalwords = SumSeq(kept)
                   /\ load.allbooks[i].counted = SumSeq(kept)
    /\ Len(load.allbooks) = Cardinality({load.allbooks[i].name : i \in 1 .. Len(load.allbooks)})
    /\ load.twsum = SumSeq(KeptOf(LinesRead, 1, lo, hi)) + SumSeq(KeptOf(LinesRead, 2, lo, hi))

\* C9 as stated: a character is skipped exactly when n < 10 or n > 32767.
C9_SkippedOutside10To32767 == LoadedExactly(10, 32767)

\* C9 as amended: a character is skipped exactly when n < 10 or n > 32700;
\* every character with 10 <= n <= 32700 is loaded into its book, and a
\* skipped character changes no count and creates no book.
C9_SkippedOutside10To32700 == LoadedExactly(10, 32700)

C9_Witness ==
    /\ ~load.reading /\ load.sofar = 2
    /\ load.file[1].inlexicon = 32701 /\ load.file[1].book = 1
    /\ load.file[2].inlexicon = 32700 /\ load.file[2].book = 2
    /\ Len(load.allbooks) = 1 /\ load.twsum = 32700

\* ------------------------------------------------- a corrupted count
\* Between two iterations one cell of the topic-word matrix, or the
\* totalwords of one book, is changed from outside (a count that is already
\* wrong is not changed again).  A Book object is shared by booklist and
\* booksequences.
CorruptCell ==
    /\ pc = "loop"
    /\ AuditPasses(Corpus, twmatrix)
    /\ \E w \in WordIds, k \in Topics : twmatrix' = [twmatrix EXCEPT ![w][k] = @ + 1]
    /\ UNCHANGED <<load, ref, numiterations, numthemes, numprocesses, allbooks, booklist,
                   booksequences, iteration, alpha, pc, worker, rng>>

Miscounted(book) == [book EXCEPT !.totalwords = @ + 1]

CorruptTotalwords ==
    /\ pc = "loop"
    /\ AuditPasses(Corpus, twmatrix)
    /\ \E i \in 1 .. Len(Corpus) :
          LET hit(books) == [j \in DOMAIN books |->
                                IF books[j] = Corpus[i] THEN Miscounted(books[j])
                                ELSE books[j]]
          IN  /\ allbooks' = hit(allbooks)
              /\ booklist' = hit(booklist)
              /\ booksequences' = [s \in DOMAIN booksequences |-> hit(booksequences[s])]
    /\ UNCHANGED <<load, ref, numiterations, numthemes, numprocesses, twmatrix, iteration, alpha,
                   pc, worker, rng>>

InitFault == InitWith(FALSE, 1 .. MaxProcesses, MaxTokens - 1, NumIterations)

NextFault == Next \/ CorruptCell \/ CorruptTotalwords

SpecFault == InitFault /\ [][NextFault]_vars

\* C10: an iteration i with i mod 50 = 1 is never left (no later iteration
\* starts) unless the audit has passed: the global matrix equals the matrix
\* rebuilt from the assignments and every book's totalwords is the sum of its
\* characters' word counts.
C10_AuditStopsRun ==
    [][(AuditDue(iteration) /\ iteration' # iteration)
           => AuditPasses(Corpus', twmatrix')]_vars

\* The same for the runs with more than one process only.
C10_AuditStopsParallelRun ==
    [][(numprocesses > 1 /\ AuditDue(iteration) /\ iteration' # iteration)
           => AuditPasses(Corpus', twmatrix')]_vars

\* ------------------------------------------------------------ two runs
\* The program is run, and then run once more from the same initial
\* assignments with the same random streams: the outcomes of the draws and
\* shuffles of the first run are repeated wherever the second run makes the
\* same call on the same generator state.
\* Only the branch with more than one process seeds its generators, so the
\* two runs are runs of that branch.
InitDet == InitWith(TRUE, 2 .. MaxProcesses, MaxTokens - 1, NumIterations)

RunAgain ==
    /\ rng.replay /\ rng.run = 1
    /\ pc = "done"
    /\ rng' = [rng EXCEPT !.run = 2, !.nshuffles = 1,
                          !.first = [twmatrix |-> twmatrix, booklist |-> booklist]]
    /\ LET sd == ShuffleDivide(rng.start.allbooks, numprocesses, rng.shuffles[1])
       IN  booklist' = sd.booklist /\ booksequences' = sd.booksequences
    /\ twmatrix' = rng.start.twmatrix
    /\ iteration' = 0
    /\ alpha' = [k \in Topics |-> <<1, 1>>]
    /\ pc' = "loop"
    /\ worker' = [s \in Procs |-> IdleWorker]
    /\ UNCHANGED <<load, ref, numiterations, numthemes, numprocesses, allbooks>>

NextDet == ParallelNext \/ RunAgain

SpecDet == InitDet /\ [][NextDet]_vars

\* The topic assignments of every character of every book
Assignments(books) ==
    {[name |-> books[b].name,
      topicassigns |-> [c \in 1 .. Len(books[b].characters) |->
                           books[b].characters[c].topicassigns]] :
        b \in 1 .. Len(books)}

\* C8: the second run ends with the topic-word matrix and the topic
\* assignments the first run ended with.
C8_SameSeedsSameResult ==
    (rng.replay /\ rng.run = 2 /\ pc = "done") =>
        /\ twmatrix = rng.first.twmatrix
        /\ Assignments(booklist) = Assignments(rng.first.booklist)

C8_Witness ==
    /\ rng.replay /\ rng.run = 2 /\ pc = "done"
    /\ Len(booklist) = 2
    /\ twmatrix # rng.start.twmatrix
    /\ \E e \in rng.draws : e.outcome = 0
    /\ \E e \in rng.draws : e.outcome = 1

\* ------------------------------------------------- the configured run length
\* The run of numiterations = 160 iterations on a small corpus: the
\* iterations past the 99th, where alpha is rescaled, are reached.
InitRescale == InitWith(FALSE, 1 .. MaxProcesses, MaxTokens - 1, ConfiguredIterations)

SpecRescale == InitRescale /\ [][Next]_vars

\* A rational r lies in [1/2, 2]
WithinClamp(r) == r[2] > 0 /\ 2 * r[1] >= r[2] /\ r[1] <= 2 * r[2]

\* A rational r equals clamp(nk / (total / len), 1/2, 2)
IsClampOf(r, nk, len, total) ==
    /\ total > 0 /\ r[2] > 0
    /\ IF nk * len > 2 * total THEN r[1] = 2 * r[2]
       ELSE IF 2 * nk * len < total THEN 2 * r[1] = r[2]
       ELSE r[1] * total = nk * len * r[2]

\* The step that starts an iteration (lines 381-401)
IterationStarts == pc = "loop" /\ pc' # "loop"

\* C11: the iteration whose number i has i > 99 and i mod 20 = 0 sets every
\* alpha[k] to alpha_mean * clamp(N[k] / mean(N), 0.5, 2.0), N being the
\* column sums of the global matrix, so every alpha[k] / alpha_mean lies in
\* [0.5, 2.0]; every other step leaves alpha unchanged; and the column sums
\* 1, 1000, 1, 1 are rescaled to 0.5, 2.0, 0.5, 0.5.
C11_AlphaRescaledAndClamped ==
    [][/\ IF IterationStarts /\ iteration > 99 /\ iteration % 20 = 0
          THEN \A k \in Topics :
                  /\ IsClampOf(alpha'[k], ColumnSums(twmatrix)[k], NumTopics,
                               MatrixSum(twmatrix))
                  /\ WithinClamp(alpha'[k])
          ELSE alpha' = alpha
       /\ LET r == ClampedRatio([k \in 0 .. 3 |-> IF k = 1 THEN 1000 ELSE 1])
          IN  \A k \in 0 .. 3 : r[k] = IF k = 1 THEN <<2, 1>> ELSE <<1, 2>>]_vars

\* The same for the runs whose corpus holds at least one token.
C11_AlphaRescaledWithTokens ==
    [][MatrixSum(twmatrix) > 0 =>
        IF IterationStarts /\ iteration > 99 /\ iteration % 20 = 0
        THEN \A k \in Topics :
                /\ IsClampOf(alpha'[k], ColumnSums(twmatrix)[k], NumTopics,
                             MatrixSum(twmatrix))
                /\ WithinClamp(alpha'[k])
        ELSE alpha' = alpha]_vars

\* Each branch of the clamp is taken by some rescale.
C11_WitnessLow == iteration > 100 /\ \E k \in Topics : alpha[k] = <<1, 2>>

C11_WitnessHigh == iteration > 100 /\ \E k \in Topics : alpha[k] = <<2, 1>>

C11_WitnessMiddle ==
    iteration > 100 /\ \E k \in Topics : alpha[k] \notin {<<1, 1>>, <<1, 2>>, <<2, 1>>}

\* ------------------------------------------------- what a sweep hands back
\* The tokens of the books `after` whose topic is (keep = TRUE) or is not
\* (keep = FALSE) the one they have in `before`, the same books before the
\* sweep.
TokensKept(before, after, keep) ==
    {<<b, c, i>> \in (1 .. Len(after)) \X (1 .. MaxTokens) \X (1 .. MaxTokens) :
        /\ c <= Len(after[b].characters)
        /\ i <= after[b].characters[c].numwords
        /\ (after[b].characters[c].topicassigns[i]
            = before[b].characters[c].topicassigns[i]) = keep}

BookNames(books) == [b \in 1 .. Len(books) |-> books[b].name]

\* C12 as stated: a finished sweep returns a triple whose third component
\* is the change ratio (different + 1) / (same + 1).
C12_ReturnsTripleWithRatio ==
    \A s \in Procs : (pc = "wait" /\ worker[s].pc = "ret") =>
        LET rv == ReturnValue(worker[s])
            same == Cardinality(TokensKept(booksequences[s], worker[s].booksequence, TRUE))
            different == Cardinality(TokensKept(booksequences[s], worker[s].booksequence, FALSE))
        IN  /\ Len(rv) = 3
            /\ rv[1] = MatrixSub(RecreateMatrix(worker[s].booksequence),
                                 RecreateMatrix(booksequences[s]))
            /\ BookNames(rv[2]) = BookNames(booksequences[s])
            /\ rv[3] = <<different + 1, same + 1>>

\* C12, amended: a finished sweep returns the pair (delta matrix, the
\* shard's books in unchanged order), the delta being the change of the
\* token counts of the shard's books; the change ratio is printed, not
\* returned, and is different / (same + 1), same being the number of the
\* shard's tokens whose new topic equals the old one and different the
\* number of all others.
C12_ReturnsPairPrintsRatio ==
    \A s \in Procs : (pc = "wait" /\ worker[s].pc = "ret") =>
        LET rv == ReturnValue(worker[s])
            same == Cardinality(TokensKept(booksequences[s], rv[2], TRUE))
            different == Cardinality(TokensKept(booksequences[s], rv[2], FALSE))
        IN  /\ Len(rv) = 2
            /\ rv[1] = MatrixSub(RecreateMatrix(rv[2]),
                                 RecreateMatrix(booksequences[s]))
            /\ BookNames(rv[2]) = BookNames(booksequences[s])
            /\ worker[s].printed = <<different, same + 1>>

C12_Witness ==
    \E s \in Procs :
        /\ pc = "wait" /\ worker[s].pc = "ret"
        /\ Len(worker[s].booksequence) = 2
        /\ worker[s].printed = <<1, 2>>
        /\ worker[s].changematrix # ZeroMatrix

\* ------------------------------------ one shard beside the in-place sweep
\* The path of the pool (lines 405-430) run with a single shard that holds
\* every book, and beside it infer_two_levels.onepass (line 440) on its own
\* books and matrix, kept in ref: ref.sw.booksequence is its allbooks and
\* ref.sw.twmatrix the matrix it changes in place.  The two visit the books
\* in the same order (the shuffles leave the order) and the in-place sweep is
\* handed, token by token, the outcome the shard's sweep drew.
InitPair ==
    \E nt \in 0 .. NumTopics, corpus \in Corpora(MaxTokens, 0) :
        LET st == LoadLines([allbooks |-> <<>>, twmatrix |-> ZeroMatrix], corpus, nt)
            unshuffled == [j \in 1 .. Len(st.allbooks) |-> j]
            sd == ShuffleDivide(st.allbooks, 1, unshuffled)
        IN  /\ numthemes = nt
            /\ numprocesses = 1
            /\ numiterations = NumIterations
            /\ allbooks = <<>>
            /\ twmatrix = st.twmatrix
            /\ booklist = sd.booklist
            /\ booksequences = sd.booksequences
            /\ iteration = 0
            /\ alpha = [k \in Topics |-> <<1, 1>>]
            /\ pc = "loop"
            /\ worker = [s \in 0 .. 0 |-> IdleWorker]
            /\ rng = FreshRng(FALSE, <<>>, <<>>)
            /\ load = NotLoading
            /\ ref = [pc |-> "loop", iteration |-> 0,
                      alpha |-> [k \in Topics |-> <<1, 1>>],
                      sw |-> [IdleWorker EXCEPT !.booksequence = st.allbooks,
                                                !.twmatrix = st.twmatrix]]

PathDispatch == DispatchShards

PathBegin == ref.pc # "loop" /\ Begin(0)

PathDecrement == (ref.pc = "pass" => ref.sw.pc = "token") /\ Decrement(0)

PathDraw == (ref.pc = "pass" => ref.sw.pc = "draw") /\ Draw(0)

PathDrawFails == (ref.pc = "pass" => ref.sw.pc = "draw") /\ DrawFails(0)

PathCollect == ref.pc # "pass" /\ Collect /\ booklist' = Merged.booklist

PathCollectFails == ref.pc # "pass" /\ CollectFails

RefUnchanged ==
    UNCHANGED <<load, numiterations, numthemes, numprocesses, allbooks, twmatrix,
                booklist, booksequences, iteration, alpha, pc, worker, rng>>

\* __main__ lines 381-401 and 440, infer_two_levels.onepass lines 260-269;
\* without a book the loops never run and line 317 divides by same = 0.
RefBegin ==
    /\ pc = "wait"
    /\ ref.pc = "loop" /\ ref.iteration = iteration
    /\ LET al == IF RescaleDue(ref.iteration) THEN RescaledAlpha(ref.sw.twmatrix)
                 ELSE ref.alpha
       IN  ref' = IF ref.sw.booksequence = <<>>
                  THEN [ref EXCEPT !.pc = "zerodivision", !.alpha = al]
                  ELSE [ref EXCEPT !.pc = "pass", !.alpha = al,
                                   !.sw = [@ EXCEPT !.pc = "token",
                                              !.b = 1, !.c = 1, !.idx = 1,
                                              !.same = 0, !.different = 0,
                                              !.topicnormalizer = ColumnSums(ref.sw.twmatrix)]]
    /\ RefUnchanged

SamePlace(a, b) == a.b = b.b /\ a.c = b.c /\ a.idx = b.idx

\* infer_two_levels.onepass lines 276-305
RefDecrement ==
    /\ ref.pc = "pass" /\ ref.sw.pc = "token"
    /\ worker[0].pc = "draw" /\ SamePlace(ref.sw, worker[0])
    /\ ref' = [ref EXCEPT !.sw = KernelDecrement(ref.sw, ref.alpha, numthemes)]
    /\ RefUnchanged

\* The topic the shard's sweep drew for the token the in-place sweep is at
DrawnBeside ==
    worker[0].booksequence[ref.sw.b].characters[ref.sw.c].topicassigns[ref.sw.idx]

\* infer_two_levels.onepass lines 306-317, the draw being the one the
\* shard's sweep made (when np.random.choice can return it here)
RefDraw ==
    /\ ref.pc = "pass" /\ ref.sw.pc = "draw"
    /\ worker[0].pc \in {"token", "ret"}
    /\ \E choice \in ChoiceTopics(ref.sw.distribution) :
          /\ DrawnBeside \in ChoiceTopics(ref.sw.distribution) => choice = DrawnBeside
          /\ LET sw == ClearLocals(KernelAssign(ref.sw, choice, numthemes))
             IN  ref' = IF sw.pc # "end" THEN [ref EXCEPT !.sw = sw]
                        ELSE IF sw.same = 0
                        THEN [ref EXCEPT !.sw = sw, !.pc = "zerodivision"]
                        ELSE [ref EXCEPT !.sw = sw,
                                         !.iteration = @ + 1,
                                         !.pc = IF ref.iteration + 1 < numiterations
                                                THEN "loop" ELSE "done"]
    /\ RefUnchanged

\* np.random.choice raises ValueError in the in-place sweep, as it did in
\* the shard's sweep
RefDrawFails ==
    /\ ref.pc = "pass" /\ ref.sw.pc = "draw"
    /\ worker[0].pc = "failed"
    /\ ChoiceRaises(ref.sw.distribution)
    /\ ref' = [ref EXCEPT !.pc = "valueerror"]
    /\ RefUnchanged

NextPair ==
    \/ PathDispatch
    \/ PathBegin
    \/ PathDecrement
    \/ PathDraw
    \/ PathDrawFails
    \/ PathCollect
    \/ PathCollectFails
    \/ RefBegin
    \/ RefDecrement
    \/ RefDraw
    \/ RefDrawFails

SpecPair == InitPair /\ [][NextPair]_vars

\* C13: whenever the single shard's path has finished an iteration, the
\* in-place sweep has finished the same iteration, with the same topic-word
\* matrix and the same books (assignments and counts).
C13_OneShardSameAsInPlace ==
    pc \in {"loop", "done"} =>
        /\ ref.pc = pc /\ ref.iteration = iteration
        /\ ref.sw.twmatrix = twmatrix
        /\ ref.sw.booksequence = booklist

\* The two agree for as long as the in-place sweep runs: they compute the
\* same distribution for every token, and at the end of every iteration the
\* matrices and books are equal, also when the in-place sweep then stops at
\* line 317.
C13_SameUntilDivisionByZero ==
    /\ (ref.pc = "pass" /\ ref.sw.pc = "draw" /\ worker[0].pc = "draw") =>
          ref.sw.distribution = worker[0].distribution
    /\ pc \in {"loop", "done"} =>
          /\ ref.pc = pc \/ ref.pc = "zerodivision"
          /\ ref.pc = pc => ref.iteration = iteration
          /\ ref.pc = "zerodivision" => ref.iteration < iteration
          /\ ref.sw.twmatrix = twmatrix \/ ref.iteration + 1 < iteration
          /\ ref.sw.booksequence = booklist \/ ref.iteration + 1 < iteration

C13_WitnessSame ==
    /\ pc = "done" /\ ref.pc = "done"
    /\ Len(booklist) = 2
    /\ ref.sw.same = 1 /\ ref.sw.different = 2

\* --------------------------------------------------- the seeds of the pool
\* Line 406 for every iteration of the configured run and every number of
\* processes up to the configured one; the sweeps are left out (the seeds
\* do not depend on them).
InitSeeds ==
    \E np \in 1 .. ConfiguredProcesses :
        /\ numthemes = 0
        /\ numprocesses = np
        /\ numiterations = ConfiguredIterations
        /\ allbooks = <<>>
        /\ booklist = <<>>
        /\ booksequences = [s \in 0 .. (np - 1) |-> <<>>]
        /\ twmatrix = ZeroMatrix
        /\ iteration = 0
        /\ alpha = [k \in Topics |-> <<1, 1>>]
        /\ pc = "loop"
        /\ worker = [s \in 0 .. (np - 1) |-> IdleWorker]
        /\ rng = FreshRng(FALSE, <<>>, <<>>)
        /\ load = NotLoading
        /\ ref = NoReference

\* random_seeds of line 406, zipped with the shards (lines 409-412)
SeedShards ==
    /\ pc = "loop"
    /\ iteration < numiterations
    /\ worker' = [s \in Procs |->
                    [IdleWorker EXCEPT !.pc = "start",
                                       !.booksequence = booksequences[s],
                                       !.theseed = RandomSeed(s, iteration)]]
    /\ pc' = "seeded"
    /\ UNCHANGED <<load, ref, numiterations, numthemes, numprocesses, allbooks,
                   twmatrix, booklist, booksequences, iteration, alpha, rng>>

\* The loop goes on to the next iteration
NextIteration ==
    /\ pc = "seeded"
    /\ iteration' = iteration + 1
    /\ pc' = "loop"
    /\ worker' = [s \in Procs |-> IdleWorker]
    /\ UNCHANGED <<load, ref, numiterations, numthemes, numprocesses, allbooks,
                   twmatrix, booklist, booksequences, alpha, rng>>

NextSeeds == SeedShards \/ NextIteration

SpecSeeds == InitSeeds /\ [][NextSeeds]_vars

\* C14: the seeds handed to the processes of one iteration are
\* ((s+1)*(i+1)) mod 399 and are pairwise distinct.
C14_SeedsPairwiseDistinct ==
    pc = "seeded" =>
        /\ \A s \in Procs : worker[s].theseed = ((s + 1) * (iteration + 1)) % 399
        /\ \A s, t \in Procs : s # t => worker[s].theseed # worker[t].theseed

\* With at most three processes the seeds of an iteration are distinct.
C14_SeedsDistinctUpToThree ==
    (pc = "seeded" /\ numprocesses <= 3) =>
        \A s, t \in Procs : s # t => worker[s].theseed # worker[t].theseed

\* ------------------------------------------ the sweep's column-sum vector
\* The sweeps at work: the pool's workers with their own matrices, or the
\* single-process sweep with the coordinator's.
Sweeps ==
    IF pc = "wait" THEN {worker[s] : s \in Procs}
    ELSE IF pc = "pass" THEN {SweepView}
    ELSE {}

\* C15: in every sweep, at the start of every kernel call and after every
\* kernel call, topicnormalizer[k] is the sum over the words w of the
\* sweep's own twmatrix[w][k], for every topic k.
C15_NormalizerIsColumnSum ==
    \A sw \in Sweeps :
        (sw.pc = "token" \/ (sw.pc = "ret" /\ sw.booksequence # <<>>)) =>
            \A k \in Topics :
                sw.topicnormalizer[k] = SumFn([w \in WordIds |-> sw.twmatrix[w][k]], WordIds)

\* A sweep after a kernel call that moved a token to another topic, before
\* its next call in the same book.
C15_Witness ==
    \E sw \in Sweeps :
        /\ sw.pc = "token" /\ sw.different = 1
        /\ sw.c + sw.idx > 2
        /\ sw.twmatrix # sw.oldmatrix

\* ------------------------------------------------ no shared mutable state
\* The names of the books a sweep holds
Owned(sw) == {sw.booksequence[b].name : b \in 1 .. Len(sw.booksequence)}

\* C16: while the pool is at work, a step is the step of one worker s and
\* changes only that worker's matrix and books; the coordinator's matrix,
\* booklist and shards stay as they were dispatched; every book is held by
\* exactly one worker, the one whose shard it was dispatched in.
C16_NoSharedMutableState ==
    [][(pc = "wait" /\ pc' = "wait") =>
          /\ twmatrix' = twmatrix
          /\ booklist' = booklist
          /\ booksequences' = booksequences
          /\ \A s \in Procs :
                /\ worker'[s].oldmatrix = twmatrix \/ worker'[s].pc = "start"
                /\ Owned(worker'[s]) = {booksequences[s][b].name :
                                           b \in 1 .. Len(booksequences[s])}
          /\ \A s, t \in Procs : s # t => Owned(worker'[s]) \cap Owned(worker'[t]) = {}
          /\ \E s \in Procs :
                \A t \in Procs \ {s} : worker'[t] = worker[t]]_vars

\* Two workers, each having changed its own matrix and its own book, one of
\* them in the middle of its sweep.
C16_Witness ==
    /\ pc = "wait"
    /\ numprocesses = 2
    /\ \A s \in Procs :
          /\ worker[s].different = 1
          /\ worker[s].twmatrix # twmatrix
          /\ worker[s].booksequence # booksequences[s]
    /\ worker[0].pc = "token"
    /\ worker[0].twmatrix # worker[1].twmatrix

\* ------------------------------------------- the token is left out first
\* n with one taken off at z
OneLessAt(n, z) == [k \in DOMAIN n |-> IF k = z THEN n[k] - 1 ELSE n[k]]

\* The sweep `after` is the sweep `before` with its next token taken out of
\* the counts and nothing put back: the matrix row, topicnormalizer and the
\* theme or role counts used are one less at the token's topic z and
\* otherwise as before, the distribution (times 10000) is
\* (count / total + alpha) * (matrix[w] + beta) / topicnormalizer of those
\* counts, and the book and character still hold the old assignment and
\* counts.
TokenLeftOut(before, after, al, nt) ==
    LET book == before.booksequence[before.b]
        char == book.characters[before.c]
        w == char.wordtypes[before.idx]
        z == char.topicassigns[before.idx]
        themes == IF z < nt THEN OneLessAt(book.themecounts, z) ELSE book.themecounts
        roles == IF z < nt THEN char.rolecounts ELSE OneLessAt(char.rolecounts, z - nt)
        n == OneLessAt(before.topicnormalizer, z)
    IN  /\ after.twmatrix =
              [x \in WordIds |-> IF x = w THEN OneLessAt(before.twmatrix[w], z)
                                 ELSE before.twmatrix[x]]
        /\ after.topicnormalizer = n
        /\ after.themearray = themes
        /\ after.rolearray = roles
        /\ after.booksequence = before.booksequence
        /\ \A k \in Topics :
              LET cnt == IF k < nt THEN themes[k] ELSE roles[k - nt]
                  tot == IF k < nt THEN book.totalwords ELSE char.numwords
              IN  after.distribution[k] =
                      <<(1000 * cnt * al[k][2] + al[k][1] * tot)
                            * (10 * after.twmatrix[w][k] + 1),
                        tot * al[k][2] * n[k]>>

\* The sweep `after` is the sweep `before` with the token in hand put back
\* at the topic now assigned to it, and nothing else changed in the matrix.
TokenPutBack(before, after) ==
    LET w == before.booksequence[before.b].characters[before.c].wordtypes[before.idx]
        k == after.booksequence[before.b].characters[before.c].topicassigns[before.idx]
    IN  after.twmatrix = [before.twmatrix EXCEPT ![w][k] = @ + 1]

\* C17: the step that computes a token's distribution takes the token out
\* of the counts first and puts nothing back; the increment at the new topic
\* comes with the step that draws.
C17_TokenExcludedBeforeDraw ==
    [][/\ \A s \in Procs :
             /\ (pc = "wait" /\ worker[s].pc = "token" /\ worker'[s].pc = "draw") =>
                    TokenLeftOut(worker[s], worker'[s], alpha, numthemes)
             /\ (pc = "wait" /\ worker[s].pc = "draw"
                     /\ worker'[s].pc \in {"token", "ret"}) =>
                    TokenPutBack(worker[s], worker'[s])
       /\ (pc = "pass" /\ worker[0].pc = "token" /\ worker'[0].pc = "draw") =>
              TokenLeftOut(SweepView,
                           [worker'[0] EXCEPT !.booksequence = allbooks',
                                              !.twmatrix = twmatrix'],
                           alpha, numthemes)
       /\ (pc = "pass" /\ worker[0].pc = "draw" /\ worker'[0].pc # "failed") =>
              TokenPutBack(SweepView,
                           [worker'[0] EXCEPT !.booksequence = allbooks',
                                              !.twmatrix = twmatrix'])]_vars

\* A sweep about to draw for a token of a role, with another token of the
\* same word and topic left in the counts.
C17_Witness ==
    \E sw \in Sweeps :
        /\ sw.pc = "draw"
        /\ LET char == sw.booksequence[sw.b].characters[sw.c]
               z == char.topicassigns[sw.idx]
           IN  /\ z >= numthemes
               /\ sw.rolearray[z - numthemes] = 1
               /\ char.rolecounts[z - numthemes] = 2
               /\ sw.twmatrix[char.wordtypes[sw.idx]][z] = 1

\* ------------------------------------------------------- the change ratio
\* C18: no sweep ends in a division by zero when it computes its change
\* ratio: the divisor of the ratio a worker prints is positive, and the
\* single-process sweep does not stop with ZeroDivisionError.
C18_ChangeRatioNeverDividesByZero ==
    \A s \in DOMAIN worker :
        /\ worker[s].pc = "ret" => worker[s].printed[2] > 0
        /\ worker[s].pc # "zerodivision"

\* The same for the sweeps of the pool's workers only.
C18_WorkerRatioDefined ==
    \A s \in DOMAIN worker :
        worker[s].pc = "ret" =>
            /\ worker[s].printed[2] > 0
            /\ numprocesses > 1

\* ------------------------------------------------------ the rows' sums
RowSum(tw, w) == SumFn(tw[w], Topics)

\* The tokens of the books with word w
TokensOfWord(books, w) == UNION {TokensAt(books, w, k) : k \in Topics}

\* C19: every row of the matrix a worker returns sums to zero, and the sum
\* of row w of the coordinator's matrix is, after initialization and after
\* every merge, the number of tokens with word w.
C19_RowSumsKept ==
    numprocesses > 1 =>
        /\ \A s \in Procs : worker[s].pc = "ret" =>
              \A w \in WordIds : RowSum(ReturnValue(worker[s])[1], w) = 0
        /\ \A w \in WordIds :
              RowSum(twmatrix, w) = Cardinality(TokensOfWord(booklist, w))

\* A worker returns a delta that moves a token of a word from one topic to
\* another, the word having two tokens in the corpus.
C19_Witness ==
    /\ numprocesses > 1 /\ pc = "wait"
    /\ \E s \in Procs, w \in WordIds :
          /\ worker[s].pc = "ret"
          /\ worker[s].changematrix[w][0] = -1
          /\ worker[s].changematrix[w][1] = 1
          /\ RowSum(twmatrix, w) = 2

\* ------------------------------------------- the 16-bit counts of the roles
\* load_characters on a file, then kernel calls, the characters being known
\* by their numbers of words and their rolecounts (dtype int16) only.
MaxCalls == 2

Roulettes == {"none", "one", "all"}

CountFiles ==
    UNION {[1 .. n -> FileLinesWith({1}, {0}, Roulettes)] : n \in 0 .. (MaxLines + 1)}

InitCounts == InitLoadFrom(CountFiles)

\* Character.assignword lines 121-134 on the counts, for a word of a loaded
\* character whose topic is existingtopic; topicassigns is of dtype int16.
CountsAssign ==
    /\ ~load.reading
    /\ load.calls < MaxCalls
    /\ \E i \in 1 .. Len(load.allbooks) :
       \E c \in 1 .. Len(load.allbooks[i].characters) :
       \E existingtopic \in Topics, newtopicnum \in Topics :
          /\ load.allbooks[i].rolecounts[c][existingtopic] # 0
          /\ LET taken == [load.allbooks[i].rolecounts[c] EXCEPT
                              ![existingtopic] = Int16(@ - 1)]
                 given == [taken EXCEPT ![newtopicnum] = Int16(@ + 1)]
             IN  load' = [load EXCEPT !.allbooks[i].rolecounts[c] = given,
                                      !.stored = Int16(newtopicnum),
                                      !.calls = @ + 1]
    /\ UNCHANGED <<ref, numiterations, numthemes, numprocesses, allbooks, twmatrix,
                   booklist, booksequences, iteration, alpha, pc, worker, rng>>

NextCounts == ReadLine \/ EndOfFile \/ CountsAssign

SpecCounts == InitCounts /\ [][NextCounts]_vars

\* C20: for every loaded character and every role r,
\* 0 <= rolecounts[r] <= numwords <= 32700 < 32767, after initialization and
\* after any kernel calls, and the topic assignment stored is in [0, K).
C20_RoleCountsFitInt16 ==
    /\ \A i \in 1 .. Len(load.allbooks) :
       \A c \in 1 .. Len(load.allbooks[i].characters) :
       \A r \in Topics :
          /\ 0 <= load.allbooks[i].rolecounts[c][r]
          /\ load.allbooks[i].rolecounts[c][r] <= load.allbooks[i].characters[c]
          /\ load.allbooks[i].characters[c] <= 32700
    /\ 32700 < 32767
    /\ load.stored >= 0 /\ load.stored < NumTopics

\* The longest character that is loaded, all its words first in role 0,
\* after a kernel call that moved one to role 1.
C20_Witness ==
    /\ load.calls = 1 /\ load.stored = 1
    /\ \E i \in 1 .. Len(load.allbooks) :
       \E c \in 1 .. Len(load.allbooks[i].characters) :
          /\ load.allbooks[i].characters[c] = 32700
          /\ load.allbooks[i].rolecounts[c][0] = 32699
          /\ load.allbooks[i].rolecounts[c][1] = 1

====
